---------------------------- MODULE Spec2Model ----------------------------
(***************************************************************************)
(* Scope binding and lifecycle of svcs.thread (thread.py, the thread-affine *)
(* variant) and svcs.thread_alt (thread_alt.py, the context-propagated     *)
(* variant).  Both modules are modelled as state machines driven by client *)
(* threads that call the module-level API in any order.                    *)
(*                                                                         *)
(* svcs.Registry and svcs.Container live in svcs._core, which is not among *)
(* the sources; they are modelled from the specification (sections 2, 3).  *)
(***************************************************************************)
EXTENDS Integers, Sequences, FiniteSets, TLC

(***************************************************************************)
(* Bounds of the model.                                                    *)
(***************************************************************************)
\* containers that may be constructed in one run
MaxContainers == 2
\* successful init_app/ainit_app calls in one run (each appends an exit hook)
MaxInits == 2
\* explicit close_registry/aclose_registry calls a thread makes after one init
MaxCloseCalls == 2

Threads == {"t1", "t2"}
MainThread == "t1"
Registries == {"r1", "r2"}
\* Python's None, for a registry reference
None == "None"
\* "no container": container ids are 1..MaxContainers
NoContainer == 0
\* Python's None, for the globals REGISTRY_VAR and CONTAINER_VAR
NoCell == 0

\* The registrations of the registries, as in tests/integrations/test_thread.py:
\* a value 1 for int and factories; every registry also carries one
\* on_registry_close callback (the CloseMe value's closer).
ValueTypes == {"int"}
FactoryTypes == {"Service", "B"}
SvcTypes == ValueTypes \cup FactoryTypes
IntValue == 1
\* the types the clients of thread.py resolve (the test's calls)
T_GetArgs == {"int", "Service"}
\* the registry each thread of the two-thread runs binds
OwnRegistry == [t \in Threads |-> IF t = "t1" THEN "r1" ELSE "r2"]

VARIABLES
    \* ---- svcs._core objects (shared by both variants) ----
    onClosePending,  \* [Registries -> BOOLEAN]: on_registry_close not yet run
    onCloseFired,    \* [Registries -> Nat]: times the on-close callback ran
    containers,      \* sequence of Container objects, indexed by container id
    atexitHooks,     \* sequence of functions registered with atexit.register
    \* ---- thread.py ----
    tRegistry,       \* [Threads -> Registries \cup {None}]: current_thread().registry
    tContainer,      \* [Threads -> container id]: current_thread().container
    \* ---- thread_alt.py (each thread runs in its own context) ----
    REGISTRY_VAR,    \* the global REGISTRY_VAR: a ContextVar's identity, or NoCell
    CONTAINER_VAR,   \* the global CONTAINER_VAR: a ContextVar's identity, or NoCell
    regVal,          \* [Threads -> value of the REGISTRY_VAR cell in the thread's context]
    conVal,          \* [Threads -> value of the CONTAINER_VAR cell in the thread's context]
    \* ---- the clients and what they observed ----
    pc,              \* [Threads -> front-end the thread is inside, or "idle"]
    bound,           \* [Threads -> registry the thread handed to its last init]
    scope,           \* [Threads -> what the thread's current scope did so far]
    last             \* the most recent API call and its outcome

coreVars == <<onClosePending, onCloseFired, containers, atexitHooks>>
threadVars == <<tRegistry, tContainer>>
altVars == <<REGISTRY_VAR, CONTAINER_VAR, regVal, conVal>>
clientVars == <<pc, bound, scope, last>>
vars == <<coreVars, threadVars, altVars, clientVars>>

(***************************************************************************)
(* svcs._core, from the specification.                                     *)
(***************************************************************************)
\* svcs.Container(registry): a fresh container, nothing resolved yet.
\* closed and torn record the container's last close(): that it happened
\* with nothing acquired since, and the teardowns it ran, in order.
NewContainer(reg) ==
    [registry |-> reg, instantiated |-> {}, cleanups |-> <<>>,
     closed |-> FALSE, torn |-> <<>>]

\* A container no thread or context refers to any more: Python frees it, only
\* its identity stays spent.
Collected == NewContainer("collected")

\* Container.get(T)/aget(T): a value is returned as registered; a factory runs
\* on first use, the instance is cached and its teardown recorded.
Container_get(c, T) ==
    IF T \in FactoryTypes /\ T \notin c.instantiated
    THEN [c EXCEPT !.instantiated = @ \cup {T}, !.cleanups = Append(@, T),
                   !.closed = FALSE]
    ELSE c

RECURSIVE Reverse(_)
Reverse(s) == IF s = <<>> THEN <<>> ELSE Append(Reverse(Tail(s)), Head(s))

\* Container.close()/aclose(): teardown in reverse order of acquisition.
Container_close(c) ==
    [c EXCEPT !.torn = Reverse(c.cleanups), !.cleanups = <<>>,
              !.instantiated = {}, !.closed = TRUE]

\* The container after the module-level caller `op` used it, and the
\* exception the use raises: resolving and pinging go through the container's
\* registry, which fails on a container built on None.
Container_use(c, op, T) ==
    IF op \in {"get", "aget"} /\ c.registry # None THEN Container_get(c, T) ELSE c

Container_use_err(c, op) ==
    IF op \in {"get", "aget", "get_pings"} /\ c.registry = None
    THEN "AttributeError" ELSE "ok"

\* What get(T)/aget(T) hands back for a value type: the registered value.
Container_use_ret(c, op, T) ==
    IF op \in {"get", "aget"} /\ c.registry # None /\ T \in ValueTypes
    THEN IntValue ELSE 0

\* Registry.close()/aclose() of registry r: the on-close callbacks that have
\* not run yet run; the registry's containers are not touched.
Registry_close(r) ==
    /\ onCloseFired' = [onCloseFired EXCEPT ![r] = @ + (IF onClosePending[r] THEN 1 ELSE 0)]
    /\ onClosePending' = [onClosePending EXCEPT ![r] = FALSE]

RegistryUntouched == UNCHANGED <<onClosePending, onCloseFired>>

\* What an API call left behind for its caller: who called what with which
\* argument, the exception it raised ("ok": none) and the container involved.
Outcome(t, op, arg, err, c, ret) ==
    [t |-> t, op |-> op, arg |-> arg, err |-> err, c |-> c, ret |-> ret]
NoOutcome == Outcome(None, "none", None, "ok", NoContainer, 0)

\* What a scope did since its init: whether it is still open, the containers
\* svcs_from() returned in it, and the Registry.close()/aclose() calls made for it.
EmptyScope == [open |-> FALSE, returned |-> {}, closes |-> 0]
OpenScope == [EmptyScope EXCEPT !.open = TRUE]
ClosedScope(s) == [s EXCEPT !.open = FALSE, !.closes = @ + 1]

\* A `finally` that swallows the exception of its `try` block.
FinallyErr_swallowing(finallyErr, bodyErr) == finallyErr

\* What leaves `try: <body> finally: <close step>`: the exception of the
\* close step when it raises, else the exception of the body, else nothing.
FinallyErr(finallyErr, bodyErr) ==
    IF finallyErr # "ok" THEN finallyErr ELSE bodyErr

ResolveOps == {"get", "aget"}
SvcsFromOps == {"svcs_from", "get", "aget", "get_pings"}

(***************************************************************************)
(* thread.py: the thread-affine variant.                                   *)
(***************************************************************************)
\* The attribute `container` of the function object current_thread, which
\* svcs_from() tests (getattr(current_thread, "container", None)): the test
\* reads the function, not the thread it returns, and nothing sets it.
T_current_thread_fn_container == NoContainer

\* get_registry(): current_thread().registry; an AttributeError when the
\* thread never had one assigned.
T_get_registry(t) == tRegistry[t]
T_get_registry_raises(t) == tRegistry[t] = None

\* svcs_from() followed by what the caller `op` does with the container
\* (get/aget resolve T, get_pings and svcs_from itself resolve nothing).
T_svcs_from(t, op, T) ==
    IF T_current_thread_fn_container = NoContainer
    THEN IF T_get_registry_raises(t)
         THEN /\ last' = Outcome(t, op, T, "AttributeError", NoContainer, 0)
              /\ UNCHANGED <<containers, tContainer, scope>>
         ELSE /\ Len(containers) < MaxContainers
              /\ LET id == Len(containers) + 1
                     fresh == NewContainer(tRegistry[t])
                 IN /\ containers' = Append(
                          [i \in DOMAIN containers |->
                              IF i = tContainer[t] THEN Collected ELSE containers[i]],
                          Container_use(fresh, op, T))
                    /\ tContainer' = [tContainer EXCEPT ![t] = id]
                    /\ last' = Outcome(t, op, T, Container_use_err(fresh, op), id,
                                       Container_use_ret(fresh, op, T))
                    /\ scope' = [scope EXCEPT ![t].returned =
                          IF scope[t].open THEN @ \cup {id} ELSE @]
    ELSE /\ containers' = [containers EXCEPT ![tContainer[t]] = Container_use(@, op, T)]
         /\ last' = Outcome(t, op, T, Container_use_err(containers[tContainer[t]], op),
                            tContainer[t], Container_use_ret(containers[tContainer[t]], op, T))
         /\ scope' = [scope EXCEPT ![t].returned =
               IF scope[t].open THEN @ \cup {tContainer[t]} ELSE @]
         /\ UNCHANGED tContainer

\* An init_app that keeps the registry in one process-wide slot.
T_init_app_global(t, r) ==
    /\ Len(atexitHooks) < MaxInits
    /\ tRegistry' = [u \in Threads |-> r]
    /\ atexitHooks' = Append(atexitHooks, "close_registry")

\* init_app(registry=r): binds r to the thread and registers the exit hook.
T_init_app(t, r) ==
    /\ Len(atexitHooks) < MaxInits
    /\ tRegistry' = [tRegistry EXCEPT ![t] = r]
    /\ atexitHooks' = Append(atexitHooks, "close_registry")

\* ainit_app(registry=r)
T_ainit_app(t, r) ==
    /\ Len(atexitHooks) < MaxInits
    /\ tRegistry' = [tRegistry EXCEPT ![t] = r]
    /\ atexitHooks' = Append(atexitHooks, "aclose_registry")

\* A close step that closes nothing.
T_get_registry_close_skipped(t) == RegistryUntouched

\* get_registry().close() / await get_registry().aclose(): the close step of
\* close_registry, aclose_registry and of the three front-ends.
T_get_registry_close(t) ==
    IF T_get_registry_raises(t)
    THEN RegistryUntouched
    ELSE Registry_close(tRegistry[t])

\* close_registry()/aclose_registry(): suppress(KeyError) around the close
\* step; the AttributeError of an unbound thread is no KeyError and propagates.
T_close_registry_err(t) == IF T_get_registry_raises(t) THEN "AttributeError" ELSE "ok"

----------------------------------------------------------------------------
\* Client calls of thread.py.  init_app, ainit_app, close_registry and
\* aclose_registry are called outside the front-ends; the body of a
\* front-end resolves services.
T_CallInitApp(t, r) ==
    /\ pc[t] = "idle"
    /\ T_init_app(t, r)
    /\ bound' = [bound EXCEPT ![t] = r]
    /\ scope' = [scope EXCEPT ![t] = OpenScope]
    /\ last' = Outcome(t, "init_app", r, "ok", NoContainer, 0)
    /\ RegistryUntouched
    /\ UNCHANGED <<altVars, containers, tContainer, pc>>

T_CallAInitApp(t, r) ==
    /\ pc[t] = "idle"
    /\ T_ainit_app(t, r)
    /\ bound' = [bound EXCEPT ![t] = r]
    /\ scope' = [scope EXCEPT ![t] = OpenScope]
    /\ last' = Outcome(t, "ainit_app", r, "ok", NoContainer, 0)
    /\ RegistryUntouched
    /\ UNCHANGED <<altVars, containers, tContainer, pc>>

T_CallSvcsFrom(t) ==
    /\ T_svcs_from(t, "svcs_from", None)
    /\ RegistryUntouched
    /\ UNCHANGED <<altVars, atexitHooks, tRegistry, pc, bound>>

T_CallGet(t, T) ==
    /\ T_svcs_from(t, "get", T)
    /\ RegistryUntouched
    /\ UNCHANGED <<altVars, atexitHooks, tRegistry, pc, bound>>

T_CallAGet(t, T) ==
    /\ T_svcs_from(t, "aget", T)
    /\ RegistryUntouched
    /\ UNCHANGED <<altVars, atexitHooks, tRegistry, pc, bound>>

T_CallGetPings(t) ==
    /\ T_svcs_from(t, "get_pings", None)
    /\ RegistryUntouched
    /\ UNCHANGED <<altVars, atexitHooks, tRegistry, pc, bound>>

T_CallCloseRegistry(t) ==
    /\ pc[t] = "idle"
    /\ scope[t].closes < MaxCloseCalls
    /\ T_get_registry_close(t)
    /\ last' = Outcome(t, "close_registry", None, T_close_registry_err(t), NoContainer, 0)
    /\ scope' = [scope EXCEPT ![t] = IF T_get_registry_raises(t) THEN @ ELSE ClosedScope(@)]
    /\ UNCHANGED <<altVars, containers, atexitHooks, tRegistry, tContainer, pc, bound>>

T_CallACloseRegistry(t) ==
    /\ pc[t] = "idle"
    /\ scope[t].closes < MaxCloseCalls
    /\ T_get_registry_close(t)
    /\ last' = Outcome(t, "aclose_registry", None, T_close_registry_err(t), NoContainer, 0)
    /\ scope' = [scope EXCEPT ![t] = IF T_get_registry_raises(t) THEN @ ELSE ClosedScope(@)]
    /\ UNCHANGED <<altVars, containers, atexitHooks, tRegistry, tContainer, pc, bound>>

\* The front-ends: dependency_injection wrapping a plain function or a
\* coroutine function, dependency_injection_context and
\* adependency_injection_context.
SyncFrontEnds == {"dependency_injection", "dependency_injection_context"}
AsyncFrontEnds == {"dependency_injection_async", "adependency_injection_context"}
FrontEnds == SyncFrontEnds \cup AsyncFrontEnds

\* Entry of a front-end: init_app(registry=r) or await ainit_app(registry=r).
T_FrontEndEnter(t, kind, r) ==
    /\ pc[t] = "idle"
    /\ IF kind \in SyncFrontEnds THEN T_init_app(t, r) ELSE T_ainit_app(t, r)
    /\ pc' = [pc EXCEPT ![t] = kind]
    /\ bound' = [bound EXCEPT ![t] = r]
    /\ scope' = [scope EXCEPT ![t] = OpenScope]
    /\ last' = Outcome(t, "enter", r, "ok", NoContainer, 0)
    /\ RegistryUntouched
    /\ UNCHANGED <<altVars, containers, tContainer>>

\* The `finally` of a front-end: get_registry().close() or
\* await get_registry().aclose(), then the result is returned.
T_FrontEndExit(t) ==
    /\ pc[t] \in FrontEnds
    /\ T_get_registry_close(t)
    /\ pc' = [pc EXCEPT ![t] = "idle"]
    /\ last' = Outcome(t, pc[t], None, T_close_registry_err(t), NoContainer, 0)
    /\ scope' = [scope EXCEPT ![t] = ClosedScope(@)]
    /\ UNCHANGED <<altVars, containers, atexitHooks, tRegistry, tContainer, bound>>

\* The wrapped body raised: the `finally` runs the same close step, then the
\* exception leaves the front-end.
T_FrontEndRaise(t) ==
    /\ pc[t] \in FrontEnds
    /\ T_get_registry_close(t)
    /\ pc' = [pc EXCEPT ![t] = "idle"]
    /\ last' = Outcome(t, pc[t], None,
                       FinallyErr(T_close_registry_err(t), "BodyError"), NoContainer, 0)
    /\ scope' = [scope EXCEPT ![t] = ClosedScope(@)]
    /\ UNCHANGED <<altVars, containers, atexitHooks, tRegistry, tContainer, bound>>

InitCore ==
    /\ onClosePending = [r \in Registries |-> TRUE]
    /\ onCloseFired = [r \in Registries |-> 0]
    /\ containers = <<>>
    /\ atexitHooks = <<>>

InitClient ==
    /\ pc = [t \in Threads |-> "idle"]
    /\ bound = [t \in Threads |-> None]
    /\ scope = [t \in Threads |-> EmptyScope]
    /\ last = NoOutcome

\* Both modules freshly imported, no thread has called anything.
InitThread ==
    /\ InitCore
    /\ InitClient
    /\ tRegistry = [t \in Threads |-> None]
    /\ tContainer = [t \in Threads |-> NoContainer]
    /\ REGISTRY_VAR = NoCell
    /\ CONTAINER_VAR = NoCell
    /\ regVal = [t \in Threads |-> None]
    /\ conVal = [t \in Threads |-> NoContainer]

\* The calls one thread may make next.
T_Calls(t) ==
    \/ \E r \in Registries : T_CallInitApp(t, r)
    \/ \E r \in Registries : T_CallAInitApp(t, r)
    \/ T_CallSvcsFrom(t)
    \/ \E T \in T_GetArgs : T_CallGet(t, T)
    \/ \E T \in T_GetArgs : T_CallAGet(t, T)
    \/ T_CallGetPings(t)
    \/ T_CallCloseRegistry(t)
    \/ T_CallACloseRegistry(t)
    \/ \E kind \in FrontEnds, r \in Registries : T_FrontEndEnter(t, kind, r)
    \/ T_FrontEndExit(t)

\* One thread using every entry point of thread.py.
NextThread == T_Calls(MainThread)

SpecThread == InitThread /\ [][NextThread]_vars

\* The hooks of kind `hook` among the registered exit hooks.
HooksOf(hook) == {i \in DOMAIN atexitHooks : atexitHooks[i] = hook}

\* Normal interpreter exit: atexit runs every registered hook on the main
\* thread, last registered first, reports what a hook raises and goes on,
\* then forgets the hooks.  A close_registry hook runs
\* get_registry().close() on the main thread; an aclose_registry hook is a
\* coroutine function: calling it only creates a coroutine that nobody
\* awaits, so it closes nothing.  The outcome records how many times
\* Registry.close() was invoked and what the hooks raised.
T_AtExit ==
    LET ran == IF T_get_registry_raises(MainThread)
               THEN 0 ELSE Cardinality(HooksOf("close_registry"))
    IN /\ \A t \in Threads : pc[t] = "idle"
       /\ IF ran > 0 THEN Registry_close(tRegistry[MainThread]) ELSE RegistryUntouched
       /\ atexitHooks' = <<>>
       /\ pc' = [t \in Threads |-> "exited"]
       /\ scope' = [scope EXCEPT ![MainThread].closes = @ + ran]
       /\ last' = Outcome(MainThread, "atexit", None,
                          IF HooksOf("close_registry") # {}
                             /\ T_get_registry_raises(MainThread)
                          THEN "AttributeError" ELSE "ok",
                          NoContainer, ran)
       /\ UNCHANGED <<altVars, containers, tRegistry, tContainer, bound>>

\* One thread binding and closing scopes of thread.py, then the process exits.
NextThreadExit ==
    \/ \E r \in Registries : T_CallInitApp(MainThread, r)
    \/ \E r \in Registries : T_CallAInitApp(MainThread, r)
    \/ T_CallCloseRegistry(MainThread)
    \/ T_CallACloseRegistry(MainThread)
    \/ \E kind \in FrontEnds, r \in Registries : T_FrontEndEnter(MainThread, kind, r)
    \/ T_FrontEndExit(MainThread)
    \/ T_AtExit

SpecThreadExit == InitThread /\ [][NextThreadExit]_vars

\* Two threads, each with its own registry, interleaving their init, get and
\* close steps.
NextThreads ==
    \E t \in Threads :
        \/ T_CallInitApp(t, OwnRegistry[t])
        \/ \E T \in T_GetArgs : T_CallGet(t, T)
        \/ T_CallSvcsFrom(t)
        \/ T_CallCloseRegistry(t)

SpecThreads == InitThread /\ [][NextThreads]_vars

(***************************************************************************)
(* thread_alt.py: the context-propagated variant.                          *)
(***************************************************************************)
\* contextvars.ContextVar(...): a new cell, distinct from the one the global
\* holds now (the identity of a cell nothing refers to any more is free to
\* be reused, as Python reuses addresses).  A new cell has no value in any
\* context.
A_ContextVar(current) == IF current = 1 THEN 2 ELSE 1

\* `if not X_VAR: X_VAR = contextvars.ContextVar(...)`: the global after the
\* lazy creation in get_registry(), svcs_from() and ainit_app().
A_lazy(cell) == IF cell = NoCell THEN A_ContextVar(cell) ELSE cell

\* get_registry(): REGISTRY_VAR.get(None) in the caller's context, after the
\* lazy creation of the cell (a cell just created holds nothing: regVal is
\* None everywhere while REGISTRY_VAR is None).
A_get_registry(t) == regVal[t]

\* svcs_from() followed by what the caller `op` does with the container.
A_svcs_from(t, op, T) ==
    /\ CONTAINER_VAR' = A_lazy(CONTAINER_VAR)
    /\ IF conVal[t] = NoContainer
       THEN /\ Len(containers) < MaxContainers
            /\ REGISTRY_VAR' = A_lazy(REGISTRY_VAR)
            /\ LET id == Len(containers) + 1
                   fresh == NewContainer(A_get_registry(t))
               IN /\ containers' = Append(containers, Container_use(fresh, op, T))
                  /\ conVal' = [conVal EXCEPT ![t] = id]
                  /\ last' = Outcome(t, op, T, Container_use_err(fresh, op), id,
                                     Container_use_ret(fresh, op, T))
                  /\ scope' = [scope EXCEPT ![t].returned =
                        IF scope[t].open THEN @ \cup {id} ELSE @]
       ELSE /\ containers' = [containers EXCEPT ![conVal[t]] = Container_use(@, op, T)]
            /\ last' = Outcome(t, op, T, Container_use_err(containers[conVal[t]], op),
                               conVal[t], Container_use_ret(containers[conVal[t]], op, T))
            /\ scope' = [scope EXCEPT ![t].returned =
                  IF scope[t].open THEN @ \cup {conVal[t]} ELSE @]
            /\ UNCHANGED <<REGISTRY_VAR, conVal>>
    /\ UNCHANGED regVal

\* A guard that never refuses.
A_init_never_raises(prevent_double_init) == FALSE

\* The guard of init_app and ainit_app:
\* `if prevent_double_init and REGISTRY_VAR is not None: raise RuntimeError`.
A_init_raises(prevent_double_init) == prevent_double_init /\ REGISTRY_VAR # NoCell

\* init_app(registry=r, prevent_double_init=...) past its guard: a new cell
\* every time, set in the caller's context, and the exit hook.
A_init_app(t, r) ==
    /\ Len(atexitHooks) < MaxInits
    /\ REGISTRY_VAR' = A_ContextVar(REGISTRY_VAR)
    /\ regVal' = [u \in Threads |-> IF u = t THEN r ELSE None]
    /\ atexitHooks' = Append(atexitHooks, "close_registry")

\* ainit_app(registry=r, prevent_double_init=...) past its guard: the cell is
\* created only when there is none.
A_ainit_app(t, r) ==
    /\ Len(atexitHooks) < MaxInits
    /\ REGISTRY_VAR' = A_lazy(REGISTRY_VAR)
    /\ regVal' = [regVal EXCEPT ![t] = r]
    /\ atexitHooks' = Append(atexitHooks, "aclose_registry")

\* close_registry(): `registry = get_registry(); if registry: registry.close()`.
A_close_registry(t) ==
    /\ REGISTRY_VAR' = A_lazy(REGISTRY_VAR)
    /\ IF A_get_registry(t) = None
       THEN RegistryUntouched
       ELSE Registry_close(A_get_registry(t))

\* get_registry().close() / await get_registry().aclose(), unguarded: the
\* close step of aclose_registry, of the decorator and of both release
\* functions.  On None it raises AttributeError.
A_get_registry_close_err(t) == IF A_get_registry(t) = None THEN "AttributeError" ELSE "ok"

\* The containers after the references in `dropped` are gone.
A_collect(dropped) ==
    [i \in DOMAIN containers |-> IF i \in dropped THEN Collected ELSE containers[i]]

\* close_and_release_registry(): close, then clear and drop both cells.  When
\* the close raises nothing is released (the cell get_registry() created stays).
A_close_and_release_registry(t) ==
    IF A_get_registry(t) = None
    THEN /\ REGISTRY_VAR' = A_lazy(REGISTRY_VAR)
         /\ RegistryUntouched
         /\ UNCHANGED <<regVal, CONTAINER_VAR, conVal, containers>>
    ELSE /\ Registry_close(A_get_registry(t))
         /\ REGISTRY_VAR' = NoCell
         /\ regVal' = [u \in Threads |-> None]
         /\ CONTAINER_VAR' = NoCell
         /\ conVal' = [u \in Threads |-> NoContainer]
         /\ containers' = A_collect({conVal[u] : u \in Threads})

\* aclose_and_release_registry(): aclose, then clear and drop the registry
\* cell only.
A_aclose_and_release_registry(t) ==
    IF A_get_registry(t) = None
    THEN /\ REGISTRY_VAR' = A_lazy(REGISTRY_VAR)
         /\ RegistryUntouched
         /\ UNCHANGED <<regVal, CONTAINER_VAR, conVal, containers>>
    ELSE /\ Registry_close(A_get_registry(t))
         /\ REGISTRY_VAR' = NoCell
         /\ regVal' = [u \in Threads |-> None]
         /\ UNCHANGED <<CONTAINER_VAR, conVal, containers>>

----------------------------------------------------------------------------
\* Client calls of thread_alt.py.
A_CallInitApp(t, r, prevent_double_init) ==
    /\ pc[t] = "idle"
    /\ IF A_init_raises(prevent_double_init)
       THEN /\ last' = Outcome(t, "init_app", r, "RuntimeError", NoContainer, 0)
            /\ UNCHANGED <<REGISTRY_VAR, regVal, atexitHooks, bound, scope>>
       ELSE /\ A_init_app(t, r)
            /\ bound' = [bound EXCEPT ![t] = r]
            /\ scope' = [scope EXCEPT ![t] = OpenScope]
            /\ last' = Outcome(t, "init_app", r, "ok", NoContainer, 0)
    /\ RegistryUntouched
    /\ UNCHANGED <<threadVars, CONTAINER_VAR, conVal, containers, pc>>

A_CallAInitApp(t, r, prevent_double_init) ==
    /\ pc[t] = "idle"
    /\ IF A_init_raises(prevent_double_init)
       THEN /\ last' = Outcome(t, "ainit_app", r, "RuntimeError", NoContainer, 0)
            /\ UNCHANGED <<REGISTRY_VAR, regVal, atexitHooks, bound, scope>>
       ELSE /\ A_ainit_app(t, r)
            /\ bound' = [bound EXCEPT ![t] = r]
            /\ scope' = [scope EXCEPT ![t] = OpenScope]
            /\ last' = Outcome(t, "ainit_app", r, "ok", NoContainer, 0)
    /\ RegistryUntouched
    /\ UNCHANGED <<threadVars, CONTAINER_VAR, conVal, containers, pc>>

A_CallSvcsFrom(t) ==
    /\ A_svcs_from(t, "svcs_from", None)
    /\ RegistryUntouched
    /\ UNCHANGED <<threadVars, atexitHooks, pc, bound>>

A_CallGet(t, T) ==
    /\ A_svcs_from(t, "get", T)
    /\ RegistryUntouched
    /\ UNCHANGED <<threadVars, atexitHooks, pc, bound>>

A_CallAGet(t, T) ==
    /\ A_svcs_from(t, "aget", T)
    /\ RegistryUntouched
    /\ UNCHANGED <<threadVars, atexitHooks, pc, bound>>

A_CallGetPings(t) ==
    /\ A_svcs_from(t, "get_pings", None)
    /\ RegistryUntouched
    /\ UNCHANGED <<threadVars, atexitHooks, pc, bound>>

A_CallCloseRegistry(t) ==
    /\ pc[t] = "idle"
    /\ scope[t].closes < MaxCloseCalls
    /\ A_close_registry(t)
    /\ last' = Outcome(t, "close_registry", None, "ok", NoContainer, 0)
    /\ scope' = [scope EXCEPT ![t] = IF A_get_registry(t) = None THEN @ ELSE ClosedScope(@)]
    /\ UNCHANGED <<threadVars, regVal, CONTAINER_VAR, conVal, containers, atexitHooks, pc, bound>>

\* aclose_registry(): suppress(KeyError) around await get_registry().aclose().
A_CallACloseRegistry(t) ==
    /\ pc[t] = "idle"
    /\ scope[t].closes < MaxCloseCalls
    /\ A_close_registry(t)
    /\ last' = Outcome(t, "aclose_registry", None,
                       A_get_registry_close_err(t), NoContainer, 0)
    /\ scope' = [scope EXCEPT ![t] = IF A_get_registry(t) = None THEN @ ELSE ClosedScope(@)]
    /\ UNCHANGED <<threadVars, regVal, CONTAINER_VAR, conVal, containers, atexitHooks, pc, bound>>

\* close_and_release_registry() called directly.
A_CallCloseAndRelease(t) ==
    /\ pc[t] = "idle"
    /\ scope[t].closes < MaxCloseCalls
    /\ A_close_and_release_registry(t)
    /\ last' = Outcome(t, "close_and_release_registry", None,
                       A_get_registry_close_err(t), NoContainer, 0)
    /\ scope' = [scope EXCEPT ![t] = IF A_get_registry(t) = None THEN @ ELSE ClosedScope(@)]
    /\ UNCHANGED <<threadVars, atexitHooks, pc, bound>>

\* Entry of a front-end: init_app(registry=r) or await ainit_app(registry=r),
\* prevent_double_init left at its default.  When the init raises the body
\* never runs and the `try` is never entered.  (Front-ends nest one deep: an
\* entry that would succeed is made from outside any front-end.)
A_FrontEndEnter(t, kind, r) ==
    /\ IF A_init_raises(TRUE)
       THEN /\ last' = Outcome(t, "enter", r, "RuntimeError", NoContainer, 0)
            /\ UNCHANGED <<REGISTRY_VAR, regVal, atexitHooks, bound, scope, pc>>
       ELSE /\ pc[t] = "idle"
            /\ IF kind \in SyncFrontEnds THEN A_init_app(t, r) ELSE A_ainit_app(t, r)
            /\ pc' = [pc EXCEPT ![t] = kind]
            /\ bound' = [bound EXCEPT ![t] = r]
            /\ scope' = [scope EXCEPT ![t] = OpenScope]
            /\ last' = Outcome(t, "enter", r, "ok", NoContainer, 0)
    /\ RegistryUntouched
    /\ UNCHANGED <<threadVars, CONTAINER_VAR, conVal, containers>>

\* The `finally` of the front-end `kind`: get_registry().close() in the
\* decorator (await ...aclose() for a coroutine function),
\* close_and_release_registry() in dependency_injection_context, await
\* aclose_and_release_registry() in adependency_injection_context.
A_front_end_finally(t, kind) ==
    CASE kind = "dependency_injection_context" -> A_close_and_release_registry(t)
      [] kind = "adependency_injection_context" -> A_aclose_and_release_registry(t)
      [] OTHER -> /\ A_close_registry(t)
                  /\ UNCHANGED <<regVal, CONTAINER_VAR, conVal, containers>>

\* The wrapped body returned: the `finally` runs, then the result is returned.
A_FrontEndExit(t) ==
    /\ pc[t] \in FrontEnds
    /\ A_front_end_finally(t, pc[t])
    /\ pc' = [pc EXCEPT ![t] = "idle"]
    /\ last' = Outcome(t, pc[t], None, A_get_registry_close_err(t), NoContainer, 0)
    /\ scope' = [scope EXCEPT ![t] = ClosedScope(@)]
    /\ UNCHANGED <<threadVars, atexitHooks, bound>>

\* The wrapped body raised: the same `finally`, then the exception leaves the
\* front-end.
A_FrontEndRaise(t) ==
    /\ pc[t] \in FrontEnds
    /\ A_front_end_finally(t, pc[t])
    /\ pc' = [pc EXCEPT ![t] = "idle"]
    /\ last' = Outcome(t, pc[t], None,
                       FinallyErr(A_get_registry_close_err(t), "BodyError"), NoContainer, 0)
    /\ scope' = [scope EXCEPT ![t] = ClosedScope(@)]
    /\ UNCHANGED <<threadVars, atexitHooks, bound>>

\* The calls one context may make next.
A_Calls(t) ==
    \/ \E r \in Registries, p \in BOOLEAN : A_CallInitApp(t, r, p)
    \/ \E r \in Registries, p \in BOOLEAN : A_CallAInitApp(t, r, p)
    \/ A_CallSvcsFrom(t)
    \/ \E T \in SvcTypes : A_CallGet(t, T)
    \/ \E T \in SvcTypes : A_CallAGet(t, T)
    \/ A_CallGetPings(t)
    \/ A_CallCloseRegistry(t)
    \/ A_CallACloseRegistry(t)
    \/ A_CallCloseAndRelease(t)
    \/ \E kind \in FrontEnds, r \in Registries : A_FrontEndEnter(t, kind, r)
    \/ A_FrontEndExit(t)

\* One context using every entry point of thread_alt.py.
NextAlt == A_Calls(MainThread)

SpecAlt == InitThread /\ [][NextAlt]_vars

\* Units of work of both variants in one process: thread t1 wraps its work
\* with the front-ends of thread.py, thread t2 with those of thread_alt.py;
\* a body resolves services and returns or raises.
ThreadClient == "t1"
AltClient == "t2"

NextFrontEnds ==
    \/ \E kind \in FrontEnds : T_FrontEndEnter(ThreadClient, kind, OwnRegistry[ThreadClient])
    \/ \E T \in T_GetArgs : T_CallGet(ThreadClient, T)
    \/ \E T \in T_GetArgs : T_CallAGet(ThreadClient, T)
    \/ T_FrontEndExit(ThreadClient)
    \/ T_FrontEndRaise(ThreadClient)
    \/ \E kind \in FrontEnds : A_FrontEndEnter(AltClient, kind, OwnRegistry[AltClient])
    \/ \E T \in T_GetArgs : A_CallGet(AltClient, T)
    \/ \E T \in T_GetArgs : A_CallAGet(AltClient, T)
    \/ A_FrontEndExit(AltClient)
    \/ A_FrontEndRaise(AltClient)

SpecFrontEnds == InitThread /\ [][NextFrontEnds]_vars

\* Two threads, each in its own context, using thread_alt.py at the same
\* time: each binds its own registry (with or without the double-init
\* check), resolves, closes and releases, or wraps its work in a front-end.
NextContexts ==
    \E t \in Threads :
        \/ \E p \in BOOLEAN : A_CallInitApp(t, OwnRegistry[t], p)
        \/ \E p \in BOOLEAN : A_CallAInitApp(t, OwnRegistry[t], p)
        \/ A_CallSvcsFrom(t)
        \/ A_CallGet(t, "Service")
        \/ A_CallCloseAndRelease(t)
        \/ \E kind \in FrontEnds : A_FrontEndEnter(t, kind, OwnRegistry[t])
        \/ A_FrontEndExit(t)

SpecContexts == InitThread /\ [][NextContexts]_vars

\* asyncio.create_task(...) (or a thread started with a copy of the context)
\* by a context: the child runs in a copy of the parent's context, so it
\* starts with the parent's values of both cells and belongs to the parent's
\* scope; what it sets later is set in its own copy.
A_Spawn(parent, child) ==
    /\ parent # child
    /\ pc[parent] = "idle"
    /\ pc[child] = "idle"
    /\ bound[child] = None
    /\ conVal[child] = NoContainer
    /\ pc' = [pc EXCEPT ![child] = "task"]
    /\ regVal' = [regVal EXCEPT ![child] = regVal[parent]]
    /\ conVal' = [conVal EXCEPT ![child] = conVal[parent]]
    /\ bound' = [bound EXCEPT ![child] = bound[parent]]
    /\ scope' = [scope EXCEPT ![child] = scope[parent]]
    /\ last' = Outcome(parent, "create_task", child, "ok", NoContainer, 0)
    /\ UNCHANGED <<coreVars, threadVars, REGISTRY_VAR, CONTAINER_VAR>>

\* The child task the main context spawns.
ChildTask == "t2"

\* One scope with a child task: the main context binds a registry, spawns
\* the child, both resolve, the main context closes.
NextTasks ==
    \/ \E r \in Registries : A_CallInitApp(MainThread, r, TRUE)
    \/ \E r \in Registries : A_CallAInitApp(MainThread, r, TRUE)
    \/ A_Spawn(MainThread, ChildTask)
    \/ \E t \in Threads : A_CallSvcsFrom(t)
    \/ \E t \in Threads, T \in T_GetArgs : A_CallGet(t, T)
    \/ \E t \in Threads, T \in T_GetArgs : A_CallAGet(t, T)
    \/ A_CallCloseRegistry(MainThread)

SpecTasks == InitThread /\ [][NextTasks]_vars

(***************************************************************************)
(* The claims.                                                             *)
(***************************************************************************)
Decorators == {"dependency_injection", "dependency_injection_async"}
InitOps == {"init_app", "ainit_app"}

\* C1 (thread.py): between init_app on a thread and the close of that scope
\* every svcs_from() on the thread returns the same container, so repeated
\* get(T) returns the identical instance.
C1_SameContainerInScope ==
    \A t \in Threads : scope[t].open => Cardinality(scope[t].returned) <= 1

\* C2 (thread.py): in a unit of work wrapped by dependency_injection(registry)
\* the body resolves both services (get/aget(int) = 1, a Service instance made
\* from the given registry), and once the unit of work has returned the
\* registry's on-close callback has fired exactly once.
C2_UnitOfWork ==
    /\ (last.op \in ResolveOps /\ pc[last.t] \in Decorators) =>
          /\ last.err = "ok"
          /\ last.arg = "int" => last.ret = IntValue
          /\ last.arg = "Service" =>
                /\ "Service" \in containers[last.c].instantiated
                /\ containers[last.c].registry = bound[last.t]
    /\ last.op \in Decorators =>
          /\ last.err = "ok"
          /\ onCloseFired[bound[last.t]] = 1

\* A decorated coroutine function has returned after its body resolved
\* Service, and the callback of its registry has fired.
C2_Witness ==
    /\ last.op = "dependency_injection_async"
    /\ \E c \in scope[last.t].returned :
          /\ "Service" \in containers[c].instantiated
          /\ containers[c].registry = bound[last.t]
    /\ onCloseFired[bound[last.t]] = 1

\* C3: when services are acquired through get/aget during one scope, closing
\* the scope through any front-end runs their teardown actions in reverse
\* order of acquisition, each exactly once.
C3_ReverseTeardownOnExit ==
    [][\A t \in Threads :
          (A_FrontEndExit(t) /\ conVal[t] # NoContainer) =>
              containers'[conVal[t]].torn = Container_close(containers[conVal[t]]).torn]_vars

\* C4: the registry binding of a scope is released only after the scope's
\* container (if one was created) has been closed.
C4_ReleaseAfterContainerClose ==
    [][\A t \in Threads :
          (regVal[t] # None /\ regVal'[t] = None /\ conVal[t] # NoContainer) =>
              containers[conVal[t]].closed]_vars

\* C5: closing a scope twice performs the underlying close of the registry at
\* most once (the second call is a no-op).
C5_CloseAtMostOnce ==
    \A t \in Threads : scope[t].closes <= 1

\* What thread u can observe of thread.py's state.
T_view(u) ==
    <<tRegistry[u], tContainer[u],
      IF tContainer[u] = NoContainer THEN Collected ELSE containers[tContainer[u]]>>

\* C6 (thread.py): with two threads each binding its own registry, under
\* every interleaving of their init, get and close steps each thread's
\* get_registry() returns the registry that thread bound, each thread's
\* svcs_from() returns a container built from that thread's registry, and a
\* step of one thread never changes what the other thread resolves.
C6_ThreadIsolation ==
    /\ [](\A t \in Threads :
            /\ bound[t] # None => T_get_registry(t) = bound[t]
            /\ tContainer[t] # NoContainer =>
                  containers[tContainer[t]].registry = bound[t])
    /\ [][\A u \in Threads : last'.t # u => T_view(u)' = T_view(u)]_vars

\* Both threads hold a container, each built from its own registry.
C6_Witness ==
    /\ \A t \in Threads :
          /\ tContainer[t] # NoContainer
          /\ containers[tContainer[t]].registry = OwnRegistry[t]
    /\ last.op \in ResolveOps

\* C7 (thread_alt.py): init_app or ainit_app with prevent_double_init left at
\* its default on a scope that has a registry bound raises the
\* already-initialized error and changes nothing: the bound registry, the
\* bound container and the installed exit hooks stay as they were.
C7_DoubleInitChangesNothing ==
    [][\A t \in Threads, r \in Registries :
          (A_get_registry(t) # None
             /\ (A_CallInitApp(t, r, TRUE) \/ A_CallAInitApp(t, r, TRUE))) =>
              /\ last'.err = "RuntimeError"
              /\ UNCHANGED <<REGISTRY_VAR, regVal, CONTAINER_VAR, conVal,
                             containers, atexitHooks, onClosePending, onCloseFired>>]_vars

\* A second init was refused on a scope whose registry and container are
\* still bound.
C7_Witness ==
    /\ last.op \in InitOps
    /\ last.err = "RuntimeError"
    /\ A_get_registry(last.t) = bound[last.t]
    /\ bound[last.t] # None
    /\ conVal[last.t] # NoContainer
    /\ containers[conVal[last.t]].registry = bound[last.t]

\* C8 (thread.py): init_app or ainit_app on a thread that already has a
\* registry bound never silently replaces the binding: the call fails and
\* the first registry stays bound (thread.py offers no opt-out).
C8_NoSilentRebind ==
    [][\A t \in Threads, r \in Registries :
          (tRegistry[t] # None /\ (T_CallInitApp(t, r) \/ T_CallAInitApp(t, r))) =>
              /\ last'.err # "ok"
              /\ tRegistry'[t] = tRegistry[t]]_vars

\* C9: svcs_from, get, aget or get_pings on a thread/context in which no
\* registry is bound fails, and the failed call neither constructs nor binds
\* a container.
C9_UnboundResolveFails ==
    [][\A t \in Threads :
          (A_get_registry(t) = None
             /\ (A_CallSvcsFrom(t) \/ A_CallGetPings(t)
                  \/ \E T \in SvcTypes : A_CallGet(t, T) \/ A_CallAGet(t, T))) =>
              /\ last'.err # "ok"
              /\ UNCHANGED <<containers, conVal>>]_vars

\* C10: close_registry or aclose_registry on a thread/context where nothing is
\* bound returns normally and is a no-op: registry binding, container
\* binding, the process-wide cell handles and the exit hooks are unchanged.
C10_CloseUnboundIsNoop ==
    [][\A t \in Threads :
          (A_get_registry(t) = None
             /\ (A_CallCloseRegistry(t) \/ A_CallACloseRegistry(t))) =>
              /\ last'.err = "ok"
              /\ UNCHANGED <<REGISTRY_VAR, CONTAINER_VAR, regVal, conVal, atexitHooks>>]_vars

\* C11 (thread_alt.py): the front-ends are behaviourally equivalent: the exit
\* a front-end performs is the exit every other front-end would perform from
\* the same state (same registry, container and cell handles afterwards,
\* same close actions on the registry).
C11_FrontEndParity ==
    [][\A t \in Threads :
          A_FrontEndExit(t) => \A kind \in FrontEnds : A_front_end_finally(t, kind)]_vars


\* C12: in both variants, once a front-end's init has succeeded its close
\* step runs exactly once on every exit path of the body: when the body
\* raises (and when it returns) the registry bound by the front-end has been
\* closed when the front-end is left, and the caller receives the body's
\* exception (nothing, when the body returned).
C12_CloseOnEveryExitPath ==
    [][\A t \in Threads :
          /\ (T_FrontEndRaise(t) \/ A_FrontEndRaise(t)) =>
                /\ last'.err = "BodyError"
                /\ ~onClosePending'[bound[t]]
                /\ onCloseFired'[bound[t]] = 1
                /\ scope'[t].closes = 1
          /\ (T_FrontEndExit(t) \/ A_FrontEndExit(t)) =>
                /\ last'.err = "ok"
                /\ ~onClosePending'[bound[t]]
                /\ onCloseFired'[bound[t]] = 1
                /\ scope'[t].closes = 1]_vars

\* A block of thread_alt.py was left by an exception of its body with its
\* registry closed, and a unit of work of thread.py has been closed too.
C12_Witness ==
    /\ last.t = AltClient
    /\ last.op = "dependency_injection_context"
    /\ last.err = "BodyError"
    /\ onCloseFired[bound[AltClient]] = 1
    /\ bound[ThreadClient] # None
    /\ scope[ThreadClient].closes = 1
    /\ ~onClosePending[bound[ThreadClient]]


\* What get_registry() and svcs_from() return in context u (svcs_from()
\* constructs a container when the context has none).
A_view(u) == <<A_get_registry(u), conVal[u]>>

\* C13 (thread_alt.py): while a scope is bound, no operation of a different
\* concurrently active scope changes what get_registry() and svcs_from()
\* return inside it, and the process-wide handles REGISTRY_VAR and
\* CONTAINER_VAR are neither reassigned nor cleared (creating a handle that
\* did not exist yet is allowed).
C13_ScopeIsolation ==
    [][\A u \in Threads :
          (A_get_registry(u) # None /\ last'.t # u) =>
              /\ A_view(u)' = A_view(u)
              /\ REGISTRY_VAR' = REGISTRY_VAR
              /\ CONTAINER_VAR # NoCell => CONTAINER_VAR' = CONTAINER_VAR]_vars

\* C14 (thread_alt.py): within one scope a container is constructed at most
\* once: a child task spawned from the bound scope and its parent, once
\* each has called svcs_from(), hold the same container.
C14_OneContainerPerScope ==
    \A t, u \in Threads :
        (/\ pc[u] = "task"
         /\ t # u
         /\ A_get_registry(t) # None
         /\ A_get_registry(u) = A_get_registry(t)
         /\ conVal[t] # NoContainer
         /\ conVal[u] # NoContainer) =>
            /\ conVal[t] = conVal[u]
            /\ Cardinality(scope[t].returned \cup scope[u].returned) <= 1


\* C15: after a scope has been closed (decorator exit, block exit or explicit
\* close) no exit hook of it remains armed: the exit hooks fired at
\* interpreter shutdown do not invoke close on the registry of the closed
\* scope.
C15_NoHookAfterClose ==
    [][(T_AtExit /\ ~scope[MainThread].open /\ scope[MainThread].closes >= 1) =>
          scope'[MainThread].closes = scope[MainThread].closes]_vars

\* C16: the process-exit hook is installed at most once: after any sequence
\* of init_app/ainit_app calls and closes the registered exit callbacks
\* contain at most one close hook.
C16_OneExitHook == Len(atexitHooks) <= 1


BlockFrontEnds == {"dependency_injection_context", "adependency_injection_context"}

\* C17 (thread_alt.py): when the close of the registry raises while a block
\* (dependency_injection_context, adependency_injection_context) is exiting,
\* the failure reaches the caller of the block and the registry and
\* container bindings of the context are released anyway.
C17_ReleaseOnFailedClose ==
    [][\A t \in Threads :
          (pc[t] \in BlockFrontEnds /\ A_FrontEndExit(t)
             /\ A_get_registry_close_err(t) # "ok") =>
              /\ last'.err = A_get_registry_close_err(t)
              /\ A_get_registry(t)' = None
              /\ conVal'[t] = NoContainer]_vars

\* C18 (thread_alt.py): init_app/ainit_app with prevent_double_init=True
\* raises the already-initialized error only if the calling scope has a
\* registry bound; on a scope without one the init succeeds, whatever was
\* called before.
C18_RaisesOnlyWhenBound ==
    [][\A t \in Threads, r \in Registries :
          (A_get_registry(t) = None
             /\ (A_CallInitApp(t, r, TRUE) \/ A_CallAInitApp(t, r, TRUE))) =>
              /\ last'.err = "ok"
              /\ A_get_registry(t)' = r]_vars

\* C19: after a unit of work wrapped by a front-end has finished, the same
\* context can run another one: the init of the second succeeds, and
\* nothing of the first unit is bound when it starts.
C19_SecondUnitOfWork ==
    [][\A t \in Threads, kind \in FrontEnds, r \in Registries :
          (last.t = t /\ last.op \in FrontEnds /\ last.err = "ok"
             /\ A_FrontEndEnter(t, kind, r)) =>
              /\ last'.err = "ok"
              /\ A_get_registry(t)' = r
              /\ conVal'[t] = NoContainer]_vars

\* C20 (thread_alt.py): whenever svcs_from() returns a container, the
\* container was constructed from the registry get_registry() returns at
\* that moment.
C20_ContainerOfCurrentRegistry ==
    (last.op \in SvcsFromOps /\ last.c # NoContainer) =>
        containers[last.c].registry = A_get_registry(last.t)


\* C21: when a scope bound by init_app or by ainit_app is still bound and was
\* never closed at normal process exit, the exit hooks run on the thread that
\* bound it close its registry (the on-close callbacks run), after a
\* synchronous and after an asynchronous init alike, and no hook raises.
C21_ExitHookCloses ==
    [][(T_AtExit /\ ~T_get_registry_raises(MainThread)
          /\ scope[MainThread].open /\ scope[MainThread].closes = 0) =>
          /\ ~onClosePending'[T_get_registry(MainThread)]
          /\ last'.err = "ok"]_vars

\* C22 (thread_alt.py): when the init step of a front-end fails because the
\* scope is already bound, the body is not executed and the front-end closes
\* nothing: the registries, the registry and container bindings, the cell
\* handles, the exit hooks and the front-end the context is in stay as they
\* were.
C22_FailedEnterChangesNothing ==
    [][\A t \in Threads, kind \in FrontEnds, r \in Registries :
          (A_get_registry(t) # None /\ A_FrontEndEnter(t, kind, r)) =>
              /\ last'.err = "RuntimeError"
              /\ UNCHANGED <<pc, scope, bound, REGISTRY_VAR, CONTAINER_VAR, regVal, conVal,
                             containers, atexitHooks, onClosePending, onCloseFired>>]_vars

\* A front-end was refused inside the body of a block whose registry is
\* still open and whose container is still bound.
C22_Witness ==
    /\ last.op = "enter"
    /\ last.err = "RuntimeError"
    /\ pc[last.t] \in BlockFrontEnds
    /\ A_get_registry(last.t) = bound[last.t]
    /\ bound[last.t] # None
    /\ onClosePending[bound[last.t]]
    /\ conVal[last.t] # NoContainer
    /\ containers[conVal[last.t]].registry = bound[last.t]

=============================================================================
